---- MODULE Spec2Model ----
(***************************************************************************)
(* Model of src/main.rs: SkewMatrix::from_upper_triangle builds a dense    *)
(* skew-symmetric matrix from its strict upper triangle, and               *)
(* SkewMatrix::pfaffian expands it along the first active row with a memo  *)
(* table keyed by the list of active indices.                              *)
(*                                                                         *)
(* Matrix entries are f64 in the source.  The model draws them from small  *)
(* integers, on which every f64 product and sum below is exact, so integer *)
(* arithmetic computes what the source computes (NaN and infinities are    *)
(* outside the model).  The recursion of pfaffian_recursive is unfolded    *)
(* into an explicit call stack: one frame per active call, holding the     *)
(* call's locals.                                                          *)
(***************************************************************************)
EXTENDS Integers, Sequences, FiniteSets, TLC

VARIABLES
    overflowChecks, \* build setting: TRUE = overflow checks on (debug profile)
    phase,          \* "start" | "built" | "panicked" | "running" | "done"
    n,              \* argument n of from_upper_triangle
    values,         \* argument values of from_upper_triangle
    err,            \* the panic raised by from_upper_triangle, if any
    data,           \* SkewMatrix.data, a function on (0..n-1) \X (0..n-1)
    memo,           \* the HashMap of one pfaffian() call
    stack,          \* active calls of pfaffian_recursive, outermost first
    result          \* value returned by the last pfaffian() call

vars == <<overflowChecks, phase, n, values, err, data, memo, stack, result>>

----------------------------------------------------------------------------
(* Bounds of the model *)

MaxN == 8       \* largest dimension tried
MaxVal == 1     \* entries of the exhaustively enumerated short inputs
FullLen == 6    \* inputs up to this length are enumerated exhaustively
MaxSeed == 2    \* seeds of the patterned longer inputs

MaxLen == (MaxN * (MaxN - 1)) \div 2 + 1

(* usize arithmetic.  The width is 64 (or 32) bits in the source; the only  *)
(* wrap-around the program can reach is 0 - 1, whose product with n = 0 is *)
(* 0 for every width, so a 16-bit modulus is used to stay inside the       *)
(* 32-bit integers of TLC.                                                   *)
UsizeModulus == 2^16

WrappingSub(a, b) == (a - b) % UsizeModulus

WrappingMul(a, b) == (a * b) % UsizeModulus

(* let expected_vals = n * (n - 1) / 2;  (when it does not panic) *)
ExpectedVals(nn) == WrappingMul(nn, WrappingSub(nn, 1)) \div 2

(* n - 1 on usize overflows exactly when n = 0 *)
SubOverflows(nn) == nn < 1

----------------------------------------------------------------------------
(* Inputs *)

Zeros(len) == [k \in 1..len |-> 0]

Pattern(len, a, b) == [k \in 1..len |-> ((a * k * k + b * k + a) % 5) - 2]

Demo2 == <<12>>

Demo4 == <<2, 3, 4, 5, 6, 7>>

Demo6 == <<1, 2, 3, 4, 5, 6, 7, 8, 9, 10, 11, 12, 13, 14, 15>>

ValueSeqs ==
    UNION {[1..len -> (-MaxVal)..MaxVal] : len \in 0..FullLen}
    \cup {Zeros(len) : len \in 0..MaxLen}
    \cup {Pattern(len, a, b) : len \in (FullLen + 1)..MaxLen,
                               a \in 1..MaxSeed, b \in 0..MaxSeed}
    \cup {Demo2, Demo4, Demo6}

----------------------------------------------------------------------------
(* from_upper_triangle *)

NoError == [kind |-> "none", left |-> 0, right |-> 0]

EmptyMatrix == [p \in {} |-> 0]

(* DMatrix::<f64>::zeros(n, n) *)
ZeroMatrix(nn) == [p \in (0..(nn - 1)) \X (0..(nn - 1)) |-> 0]

SetPairNoNegate(m, i, j, val) ==
    [m EXCEPT ![<<i, j>>] = val, ![<<j, i>>] = val]

(* m[(i, j)] = val; m[(j, i)] = -val; *)
SetPair(m, i, j, val) ==
    [m EXCEPT ![<<i, j>>] = val, ![<<j, i>>] = -val]

(* the two nested for loops, with val_iter standing at values[k] *)
RECURSIVE FillFrom(_, _, _, _, _, _)
FillFrom(m, nn, vals, i, j, k) ==
    IF i >= nn THEN m
    ELSE IF j >= nn THEN FillFrom(m, nn, vals, i + 1, i + 2, k)
    ELSE FillFrom(SetPair(m, i, j, vals[k]), nn, vals, i, j + 1, k + 1)

Fill(nn, vals) == FillFrom(ZeroMatrix(nn), nn, vals, 0, 1, 1)

FromUpperTriangle ==
    /\ phase = "start"
    /\ \E nn \in 0..MaxN, vals \in ValueSeqs :
         /\ n' = nn
         /\ values' = vals
         /\ IF nn % 2 # 0
            THEN /\ phase' = "panicked"
                 /\ err' = [kind |-> "InvalidDimension",
                            left |-> nn % 2, right |-> 0]
                 /\ data' = data
            ELSE IF overflowChecks /\ SubOverflows(nn)
            THEN /\ phase' = "panicked"
                 /\ err' = [kind |-> "SubtractOverflow",
                            left |-> nn, right |-> 1]
                 /\ data' = data
            ELSE IF Len(vals) # ExpectedVals(nn)
            THEN /\ phase' = "panicked"
                 /\ err' = [kind |-> "InvalidValueCount",
                            left |-> Len(vals), right |-> ExpectedVals(nn)]
                 /\ data' = data
            ELSE /\ phase' = "built"
                 /\ err' = NoError
                 /\ data' = Fill(nn, vals)
    /\ UNCHANGED <<overflowChecks, memo, stack, result>>

----------------------------------------------------------------------------
(* pfaffian and pfaffian_recursive *)

EmptyMemo == [key \in {} |-> 0]

MemoKeyByLen(indices) == <<Len(indices)>>

(* the key of memo.get(indices) and memo.insert(indices.to_vec(), ..) *)
MemoKey(indices) == indices

MemoInsert(mm, key, val) ==
    [q \in (DOMAIN mm) \cup {key} |-> IF q = key THEN val ELSE mm[q]]

SignDivTwo(j_idx) == IF j_idx \div 2 = 1 THEN -1 ELSE 1

SignFromPlus(j_idx) == IF j_idx % 2 = 1 THEN 1 ELSE -1

(* let sign = if j_idx % 2 == 1 { -1.0 } else { 1.0 }; *)
Sign(j_idx) == IF j_idx % 2 = 1 THEN -1 ELSE 1

SubIndicesReversed(indices, j_idx) ==
    [k \in 1..(Len(indices) - 2) |->
        IF Len(indices) - k < j_idx + 1
        THEN indices[Len(indices) - k]
        ELSE indices[Len(indices) - k + 1]]

(* sub_indices: indices[k_idx] for k_idx in 1..n, k_idx != j_idx, in order *)
(* (positions are 0-based in the source, 1-based in a TLA+ sequence)       *)
SubIndices(indices, j_idx) ==
    [k \in 1..(Len(indices) - 2) |->
        IF k < j_idx THEN indices[k + 1] ELSE indices[k + 2]]

(* the locals of one active call; j_idx = 0 before the first iteration *)
NewFrame(indices) ==
    [indices |-> indices, j_idx |-> 0, a_ij |-> 0, sign |-> 0, total_sum |-> 0]

InitialIndices == [k \in 1..n |-> k - 1]

(* pfaffian(): fresh memo, initial_indices, and the entry of the outermost *)
(* call (base case n == 0; the fresh memo cannot hit)                      *)
Pfaffian ==
    /\ phase \in {"built", "done"}
    /\ IF Len(InitialIndices) = 0
       THEN /\ phase' = "done"
            /\ result' = 1
            /\ stack' = <<>>
       ELSE /\ phase' = "running"
            /\ result' = result
            /\ stack' = <<NewFrame(InitialIndices)>>
    /\ memo' = EmptyMemo
    /\ UNCHANGED <<overflowChecks, n, values, err, data>>

Top == stack[Len(stack)]

HasNext == phase = "running" /\ Top.j_idx + 1 < Len(Top.indices)

NextJ == Top.j_idx + 1

NextSub == SubIndices(Top.indices, NextJ)

NextWeight == data[<<Top.indices[1], Top.indices[NextJ + 1]>>]

(* one loop iteration whose recursive call returns v at once *)
Accumulate(v) ==
    stack' = [stack EXCEPT ![Len(stack)] =
                [@ EXCEPT !.j_idx = NextJ,
                          !.a_ij = NextWeight,
                          !.sign = Sign(NextJ),
                          !.total_sum = @ + Sign(NextJ) * NextWeight * v]]

(* iteration whose sub-problem is empty: the call returns 1.0 *)
IterBase ==
    /\ HasNext
    /\ Len(NextSub) = 0
    /\ Accumulate(1)
    /\ UNCHANGED <<overflowChecks, phase, n, values, err, data, memo, result>>

(* iteration whose sub-problem is in the memo: the call returns the entry *)
IterHit ==
    /\ HasNext
    /\ Len(NextSub) # 0
    /\ MemoKey(NextSub) \in DOMAIN memo
    /\ Accumulate(memo[MemoKey(NextSub)])
    /\ UNCHANGED <<overflowChecks, phase, n, values, err, data, memo, result>>

(* iteration whose sub-problem has to be computed: a new call starts *)
IterRecurse ==
    /\ HasNext
    /\ Len(NextSub) # 0
    /\ MemoKey(NextSub) \notin DOMAIN memo
    /\ stack' = Append([stack EXCEPT ![Len(stack)] =
                           [@ EXCEPT !.j_idx = NextJ,
                                     !.a_ij = NextWeight,
                                     !.sign = Sign(NextJ)]],
                       NewFrame(NextSub))
    /\ UNCHANGED <<overflowChecks, phase, n, values, err, data, memo, result>>

LoopDone == phase = "running" /\ Top.j_idx + 1 >= Len(Top.indices)

(* an inner call stores its total and returns it into the caller's sum *)
ReturnInner ==
    /\ LoopDone
    /\ Len(stack) > 1
    /\ memo' = MemoInsert(memo, MemoKey(Top.indices), Top.total_sum)
    /\ LET caller == stack[Len(stack) - 1] IN
         stack' = [SubSeq(stack, 1, Len(stack) - 1) EXCEPT ![Len(stack) - 1] =
                     [caller EXCEPT !.total_sum =
                         @ + caller.sign * caller.a_ij * Top.total_sum]]
    /\ UNCHANGED <<overflowChecks, phase, n, values, err, data, result>>

(* the outermost call returns; pfaffian() returns and its memo is dropped *)
ReturnTop ==
    /\ LoopDone
    /\ Len(stack) = 1
    /\ result' = Top.total_sum
    /\ phase' = "done"
    /\ stack' = <<>>
    /\ memo' = EmptyMemo
    /\ UNCHANGED <<overflowChecks, n, values, err, data>>

----------------------------------------------------------------------------

Init ==
    /\ overflowChecks \in BOOLEAN
    /\ phase = "start"
    /\ n = 0
    /\ values = <<>>
    /\ err = NoError
    /\ data = EmptyMatrix
    /\ memo = EmptyMemo
    /\ stack = <<>>
    /\ result = 0

Next ==
    \/ FromUpperTriangle
    \/ Pfaffian
    \/ IterBase
    \/ IterHit
    \/ IterRecurse
    \/ ReturnInner
    \/ ReturnTop

Spec == Init /\ [][Next]_vars

----------------------------------------------------------------------------
(* Reference definitions used by the properties *)

Started == phase # "start"

Built == phase \in {"built", "running", "done"}

IsEven(k) == k % 2 = 0

(* n*(n-1)/2 over the mathematical integers *)
PairCount(nn) == (nn * (nn - 1)) \div 2

(* position in values of the pair (i, j), i < j, in row-major order *)
PairIndex(nn, i, j) == i * nn - (i * (i + 1)) \div 2 + (j - i)

Range(s) == {s[k] : k \in DOMAIN s}

StrictlyIncreasing(s) == \A k \in 1..(Len(s) - 1) : s[k] < s[k + 1]

(* list L without its first element and without the element at 0-based     *)
(* position k                                                               *)
Without(L, k) ==
    [q \in 1..(Len(L) - 2) |-> IF q + 1 < k + 1 THEN L[q + 1] ELSE L[q + 2]]

(* Pf(L) = sum over k >= 1 of (-1)^(k+1) * M[L[0]][L[k]] * Pf(L without     *)
(* L[0] and L[k]), Pf(empty) = 1                                            *)
RECURSIVE PfRefFrom(_, _, _)
RECURSIVE PfRef(_, _)
PfRefFrom(M, L, k) ==
    IF k >= Len(L) THEN 0
    ELSE (IF k % 2 = 1 THEN 1 ELSE -1) * M[<<L[1], L[k + 1]>>]
             * PfRef(M, Without(L, k))
         + PfRefFrom(M, L, k + 1)

PfRef(M, L) == IF Len(L) = 0 THEN 1 ELSE PfRefFrom(M, L, 1)

(* pfaffian_recursive run without a memo table: same base case, same sign  *)
(* and same sub-list as the memoized recursion                             *)
RECURSIVE PfNoMemoFrom(_, _, _)
RECURSIVE PfNoMemo(_, _)
PfNoMemoFrom(M, L, j_idx) ==
    IF j_idx >= Len(L) THEN 0
    ELSE Sign(j_idx) * M[<<L[1], L[j_idx + 1]>>]
             * PfNoMemo(M, SubIndices(L, j_idx))
         + PfNoMemoFrom(M, L, j_idx + 1)

PfNoMemo(M, L) == IF Len(L) = 0 THEN 1 ELSE PfNoMemoFrom(M, L, 1)

----------------------------------------------------------------------------
(* Properties *)

(* C1: for every even n and every matrix built by from_upper_triangle,     *)
(* pfaffian() returns the Pfaffian of the matrix as given by the reference *)
(* recurrence with sign (-1)^(k+1).                                        *)
C1_PfaffianIsReference ==
    phase = "done" => result = PfRef(data, InitialIndices)

(* C2: for n = 2 and a single upper-triangle value a, pfaffian() returns a. *)
C2_TwoByTwo ==
    (phase = "done" /\ n = 2) => result = values[1]

C4_FourByFour ==
    (phase = "done" /\ n = 4) =>
        result = values[1] * values[6] - values[2] * values[5]
                     + values[3] * values[4]

C4_Witness ==
    /\ phase = "done" /\ n = 4
    /\ \A k \in 1..6 : values[k] # 0
    /\ result # 0

(* C5: for every even n >= 0, n = 0 included, building the all-zero matrix *)
(* from n*(n-1)/2 zeros succeeds, and pfaffian() on it returns 0 when      *)
(* n > 0 and 1 when n = 0.                                                 *)
C5_AllZero ==
    (Started /\ IsEven(n) /\ values = Zeros(PairCount(n))) =>
        /\ phase # "panicked"
        /\ phase = "done" => result = (IF n = 0 THEN 1 ELSE 0)

(* C6: from_upper_triangle produces a matrix exactly when n is even and    *)
(* the number of values is n*(n-1)/2; odd n fails with InvalidDimension,   *)
(* even n with another count fails with InvalidValueCount reporting the    *)
(* expected and the actual count; a failure produces no matrix.            *)
C6_Construction ==
    Started =>
        /\ Built <=> (IsEven(n) /\ Len(values) = PairCount(n))
        /\ ~IsEven(n) => err.kind = "InvalidDimension"
        /\ (IsEven(n) /\ Len(values) # PairCount(n)) =>
               /\ err.kind = "InvalidValueCount"
               /\ err.left = Len(values)
               /\ err.right = PairCount(n)
        /\ phase = "panicked" => data = EmptyMatrix

(* C7: in every constructed matrix the k-th value v, k counting the pairs  *)
(* (i,j), i < j, in row-major order, has M[i][j] = v and M[j][i] = -v, the *)
(* diagonal is zero, and pfaffian() leaves the matrix as constructed.      *)
C7_SkewSymmetric ==
    Built =>
        /\ DOMAIN data = (0..(n - 1)) \X (0..(n - 1))
        /\ \A i \in 0..(n - 1) : data[<<i, i>>] = 0
        /\ \A i \in 0..(n - 1), j \in 0..(n - 1) :
              i < j => /\ data[<<i, j>>] = values[PairIndex(n, i, j)]
                       /\ data[<<j, i>>] = -values[PairIndex(n, i, j)]
        /\ \A i \in 0..(n - 1), j \in 0..(n - 1) :
              i # j => data[<<i, j>>] = -data[<<j, i>>]

C7_Witness ==
    /\ phase = "done" /\ n = 6
    /\ \E i \in 0..5, j \in 0..5 : data[<<i, j>>] > 0 /\ data[<<j, i>>] < 0

(* C8: the memoized pfaffian() returns what the same recursion returns     *)
(* without a memo table; every memo hit yields the value recomputing the   *)
(* list would give; the memo table is empty when a pfaffian() call starts. *)
C8_MemoEqualsNoMemo ==
    /\ phase = "done" => result = PfNoMemo(data, InitialIndices)
    /\ (HasNext /\ Len(NextSub) # 0 /\ MemoKey(NextSub) \in DOMAIN memo) =>
           memo[MemoKey(NextSub)] = PfNoMemo(data, NextSub)
    /\ (phase = "running" /\ Len(stack) = 1 /\ Top.j_idx = 0) =>
           memo = EmptyMemo

C8_Witness ==
    /\ HasNext /\ n = 8 /\ Len(NextSub) = 4
    /\ MemoKey(NextSub) \in DOMAIN memo
    /\ memo[MemoKey(NextSub)] # 0

(* C9: in every step over a non-empty active list L, the term pairing L[0] *)
(* with L[1] is taken with sign +1, the one with L[2] with sign -1, and so *)
(* on alternating, with weight M[L[0]][L[j_idx]] of the original matrix.   *)
C9_SignAlternatesFromPlus ==
    phase = "running" =>
        \A d \in 1..Len(stack) :
            stack[d].j_idx >= 1 =>
                /\ stack[d].sign = (IF stack[d].j_idx % 2 = 1 THEN 1 ELSE -1)
                /\ stack[d].a_ij =
                       data[<<stack[d].indices[1],
                              stack[d].indices[stack[d].j_idx + 1]>>]

(* C10: every active index list and every memo key is a strictly           *)
(* increasing list over 0..n-1 of even length, each list is its caller's   *)
(* list without the first element and one other, order kept, and two such  *)
(* lists with the same set of indices are the same list.                   *)
ActiveLists ==
    {stack[d].indices : d \in 1..Len(stack)}
    \cup (IF HasNext THEN {NextSub} ELSE {})

C10_ListsAreSortedSubsets ==
    phase = "running" =>
        /\ \A L \in ActiveLists \cup DOMAIN memo :
              /\ StrictlyIncreasing(L)
              /\ IsEven(Len(L))
              /\ Range(L) \subseteq 0..(n - 1)
        /\ \A d \in 2..Len(stack) :
              stack[d].indices = Without(stack[d - 1].indices, stack[d - 1].j_idx)
        /\ \A L \in ActiveLists, K \in ActiveLists \cup DOMAIN memo :
              Range(L) = Range(K) => L = K

C10_Witness ==
    /\ phase = "running" /\ n = 8 /\ Len(stack) = 3
    /\ Cardinality(DOMAIN memo) >= 5
    /\ HasNext /\ NextSub \in DOMAIN memo

====
